---- MODULE Spec2Model ----
(***************************************************************************)
(* Model of src/getMolecules.py: the generator get_gemcode_regions, which  *)
(* partitions a stream of barcoded reads into molecule summaries.          *)
(***************************************************************************)
EXTENDS Integers, Sequences, FiniteSets, TLC

(* Bound on the number of records the input stream delivers. *)
MaxReads == 4

(* Values of args.dist the runs are checked with (line 72: type=int). *)
Dists == {0, 50}

(* A record of the stream without the RX tag: read.get_tag raises KeyError. *)
NoTag == "<no RX>"

(* reference_name of an unaligned record (pysam gives None, reference_start -1). *)
NoRef == "None"

Barcodes == {"AA", "BB", "X", "Y"}

Read(chr, pos, rx) == [reference_name |-> chr, reference_start |-> pos, RX |-> rx]

(* The records the input stream delivers under Spec: two barcodes, gaps below, *)
(* at and above every dist, two references, an unaligned and an untagged record. *)
ReadSet ==
       { Read("chr1", p, "AA") : p \in {10, 70, 100, 140, 300} }
  \cup { Read(c, 100, "BB") : c \in {"chr1", "chr2"} }
  \cup { Read(NoRef, -1, "AA"), Read("chr1", 100, NoTag) }

(* The records the input stream delivers under SpecXY: two barcodes whose reads *)
(* interleave, on two references, and an untagged record.                       *)
XYReads ==
       { Read("chr1", p, b) : p \in {10, 20}, b \in {"X", "Y"} }
  \cup { Read("chr1", 100, "X"), Read("chr2", 10, "X"), Read("chr1", 10, NoTag) }

VARIABLES
  dist,      \* the dist argument
  input,     \* records taken from ibam so far, in order
  gemcodes,  \* the dict gemcodes: barcode -> list of coords
  out,       \* the molecules yielded so far, in order
  pc,        \* position of the generator: "loop", "flush", "done", "raised",
             \* "cancelled"
  err,       \* the exception that left the generator, "none" if none
  flushed,   \* keys already visited by the final loop over gemcodes
  closedAt,  \* history: for each yielded molecule, the number of records whose
             \* processing was complete when it was yielded
  lines,     \* main: the strings written to fout, in order
  fout,      \* main: the output file, "open" or "closed"
  mainpc,    \* main: "for" while in the loop of line 80 or at line 88, "exit" after
  mainerr    \* main: the exception that ended main, "none" if none

genvars == <<dist, input, gemcodes, out, pc, err, flushed, closedAt>>
mainvars == <<lines, fout, mainpc, mainerr>>
vars == <<dist, input, gemcodes, out, pc, err, flushed, closedAt,
          lines, fout, mainpc, mainerr>>

----------------------------------------------------------------------------
(* The namedtuples of lines 33-34. *)
coords(chr, pos) == [chr |-> chr, pos |-> pos]

molecule(chr, start, end, barcode, readcount) ==
  [chr |-> chr, start |-> start, end |-> end, barcode |-> barcode, readcount |-> readcount]

Min(S) == CHOOSE x \in S : \A y \in S : x <= y
Max(S) == CHOOSE x \in S : \A y \in S : x >= y

(* [pos for chr, pos in gemcodes[gem]] *)
PosOf(run) == { run[i].pos : i \in 1..Len(run) }

(* gemcodes[gem][-1] *)
Last(run) == run[Len(run)]

(* Variant: a gap of exactly dist already splits. *)
DiscontinuousAtDist(run, read, d) ==
  \/ Last(run).chr # read.reference_name
  \/ read.reference_start - Last(run).pos >= d

(* Variant: the distance is taken in both directions. *)
DiscontinuousAbs(run, read, d) ==
  \/ Last(run).chr # read.reference_name
  \/ read.reference_start - Last(run).pos > d
  \/ Last(run).pos - read.reference_start > d

(* Variant: the distance is taken from the largest position of the run. *)
DiscontinuousFromMax(run, read, d) ==
  \/ Last(run).chr # read.reference_name
  \/ read.reference_start - Max(PosOf(run)) > d

(* Variant: the condition of line 47 stops after "gem in gemcodes". *)
DiscontinuousAlways(run, read, d) == TRUE

(* Variant: only the distance is tested, not the reference. *)
DiscontinuousDistOnly(run, read, d) ==
  read.reference_start - Last(run).pos > d

(* The condition of lines 47-48, for a barcode that is a key of gemcodes. *)
Discontinuous(run, read, d) ==
  \/ Last(run).chr # read.reference_name
  \/ read.reference_start - Last(run).pos > d

(* Variant: takes the first and the last position of the run as its interval. *)
SummaryFirstLast(gem, run) ==
  molecule(run[1].chr, run[1].pos, Last(run).pos, gem, Len(run))

(* Variant: the end is written as the exclusive end of a BED interval. *)
SummaryHalfOpen(gem, run) ==
  molecule(run[1].chr, Min(PosOf(run)), Max(PosOf(run)) + 1, gem, Len(run))

(* The molecule yielded at lines 50-53 and at line 63. *)
Summary(gem, run) ==
  molecule(run[1].chr, Min(PosOf(run)), Max(PosOf(run)), gem, Len(run))

(* Variant: the dict is rebuilt with the new run as its only entry. *)
ReplaceAll(gc, gem, c) == (gem :> <<c>>)

(* Variant: the closed run's entry is deleted. *)
ReplaceRemoving(gc, gem, c) == [g \in DOMAIN gc \ {gem} |-> gc[g]]

(* Line 55: gemcodes[gem] = [coords(...)] *)
Replace(gc, gem, c) == [gc EXCEPT ![gem] = <<c>>]

(* Variant: the first access of a barcode only creates its empty list. *)
AppendToLazy(gc, gem, c) ==
  IF gem \in DOMAIN gc THEN [gc EXCEPT ![gem] = Append(@, c)]
                       ELSE gc @@ (gem :> <<>>)

(* Variant: assigns a one-element list instead of appending. *)
AppendToOverwrite(gc, gem, c) ==
  IF gem \in DOMAIN gc THEN [gc EXCEPT ![gem] = <<c>>]
                       ELSE gc @@ (gem :> <<c>>)

(* Line 59: gemcodes[gem].append(coords(...)) on a defaultdict(list). *)
AppendTo(gc, gem, c) ==
  IF gem \in DOMAIN gc THEN [gc EXCEPT ![gem] = Append(@, c)]
                       ELSE gc @@ (gem :> <<c>>)

(* Variant: the final loop leaves out the runs of a single read. *)
FlushKeysLong(gc, fl) == { g \in DOMAIN gc \ fl : Len(gc[g]) > 1 }

(* Variant: the final loop is left after its first iteration. *)
FlushKeysOnce(gc, fl) == IF fl = {} THEN DOMAIN gc ELSE {}

(* The keys the loop of line 62 has still to visit. *)
FlushKeys(gc, fl) == DOMAIN gc \ fl

(* Variant: the loop of line 41 is wrapped in a handler that goes on to the  *)
(* final loop.                                                               *)
Swallow(e) == [pc |-> "flush", err |-> e, mainpc |-> "for", mainerr |-> "none"]

(* An exception raised inside the generator is caught neither in it nor in   *)
(* main: it ends both.                                                       *)
Propagate(e) == [pc |-> "raised", err |-> e, mainpc |-> "exit", mainerr |-> e]

(* Line 82: the molecule as five tab-separated fields. *)
bed_str(bed) ==
  bed.chr \o "\t" \o ToString(bed.start) \o "\t" \o ToString(bed.end) \o "\t"
          \o bed.barcode \o "\t" \o ToString(bed.readcount)

(* Line 85: fout.write(bed_str + '\n') *)
Write(ls, bed) == Append(ls, bed_str(bed) \o "\n")

(* Variant: the generator runs its final loop when it is dropped. *)
CloseFlushes(at) == "flush"

(* The position of a generator that is dropped while suspended at position   *)
(* at: no handler surrounds the yields of lines 50 and 63, it just ends.      *)
Close(at) == "cancelled"

(* The generator is suspended at a yield it has not been resumed from, or has *)
(* not been started: the places where its consumer runs.                      *)
AtYield ==
  \/ pc = "loop" /\ input = <<>>
  \/ pc = "loop" /\ out # <<>> /\ closedAt[Len(out)] = Len(input) - 1
  \/ pc = "flush" /\ flushed # {}

----------------------------------------------------------------------------
(* The shape of the state: gemcodes is a dict whose keys are barcodes and     *)
(* whose values are lists of coords; out is a list of molecules.              *)
TypeOK ==
  /\ dist \in Dists
  /\ \A i \in 1..Len(input) : input[i].RX \in Barcodes \cup {NoTag}
  /\ DOMAIN gemcodes \subseteq Barcodes
  /\ \A g \in DOMAIN gemcodes :
       \A i \in 1..Len(gemcodes[g]) : DOMAIN gemcodes[g][i] = {"chr", "pos"}
  /\ \A k \in 1..Len(out) :
       DOMAIN out[k] = {"chr", "start", "end", "barcode", "readcount"}
  /\ pc \in {"loop", "flush", "done", "raised", "cancelled"}
  /\ err \in {"none", "KeyError", "IOError"}
  /\ flushed \subseteq DOMAIN gemcodes
  /\ Len(closedAt) = Len(out)
  /\ Len(lines) <= Len(out)
  /\ fout \in {"open", "closed"}
  /\ mainpc \in {"for", "exit"}
  /\ mainerr \in {"none", "KeyError", "IOError", "KeyboardInterrupt", "NameError"}

Init ==
  /\ dist \in Dists
  /\ input = <<>>
  /\ gemcodes = <<>>
  /\ out = <<>>
  /\ pc = "loop"
  /\ err = "none"
  /\ flushed = {}
  /\ closedAt = <<>>
  /\ lines = <<>>
  /\ fout = "open"
  /\ mainpc = "for"
  /\ mainerr = "none"

(* Line 43 on a record without the RX tag: KeyError leaves the generator. *)
ReadNoTag(read) ==
  /\ pc = "loop"
  /\ Len(input) < MaxReads
  /\ read.RX = NoTag
  /\ input' = Append(input, read)
  /\ pc' = Propagate("KeyError").pc
  /\ err' = Propagate("KeyError").err
  /\ mainpc' = Propagate("KeyError").mainpc
  /\ mainerr' = Propagate("KeyError").mainerr
  /\ UNCHANGED <<dist, gemcodes, out, flushed, closedAt, lines, fout>>

(* Lines 47-55: the barcode has a run and the read breaks it. The molecule   *)
(* yielded is written by main (lines 82-85) before the generator goes on.    *)
ReadClose(read) ==
  LET gem == read.RX IN
  /\ pc = "loop"
  /\ Len(input) < MaxReads
  /\ gem # NoTag
  /\ gem \in DOMAIN gemcodes
  /\ Discontinuous(gemcodes[gem], read, dist)
  /\ input' = Append(input, read)
  /\ out' = Append(out, Summary(gem, gemcodes[gem]))
  /\ gemcodes' = Replace(gemcodes, gem, coords(read.reference_name, read.reference_start))
  /\ closedAt' = Append(closedAt, Len(input))
  /\ lines' = Write(lines, Summary(gem, gemcodes[gem]))
  /\ UNCHANGED <<dist, pc, err, flushed, fout, mainpc, mainerr>>

(* Lines 57-59: first read of the barcode, or a read that continues its run. *)
ReadAppend(read) ==
  LET gem == read.RX IN
  /\ pc = "loop"
  /\ Len(input) < MaxReads
  /\ gem # NoTag
  /\ ~(gem \in DOMAIN gemcodes /\ Discontinuous(gemcodes[gem], read, dist))
  /\ input' = Append(input, read)
  /\ gemcodes' = AppendTo(gemcodes, gem, coords(read.reference_name, read.reference_start))
  /\ UNCHANGED <<dist, out, pc, err, flushed, closedAt, mainvars>>

(* Line 41: ibam is exhausted, the for loop ends. *)
EndOfStream ==
  /\ pc = "loop"
  /\ pc' = "flush"
  /\ UNCHANGED <<dist, input, gemcodes, out, err, flushed, closedAt, mainvars>>

(* Line 41: ibam raises while producing the next record. *)
UpstreamFails ==
  /\ pc = "loop"
  /\ pc' = Propagate("IOError").pc
  /\ err' = Propagate("IOError").err
  /\ mainpc' = Propagate("IOError").mainpc
  /\ mainerr' = Propagate("IOError").mainerr
  /\ UNCHANGED <<dist, input, gemcodes, out, flushed, closedAt, lines, fout>>

(* Lines 50 and 63: the consumer does not resume the generator from a yield  *)
(* (main is interrupted in its loop body); the generator is dropped.         *)
Cancel ==
  /\ AtYield
  /\ pc' = Close(pc)
  /\ mainpc' = "exit"
  /\ mainerr' = "KeyboardInterrupt"
  /\ UNCHANGED <<dist, input, gemcodes, out, err, flushed, closedAt, lines, fout>>

(* Lines 62-63: one iteration of the final loop; the order of the keys of a *)
(* dict is not fixed by the code.                                           *)
FlushOne(gem) ==
  /\ pc = "flush"
  /\ gem \in FlushKeys(gemcodes, flushed)
  /\ out' = Append(out, Summary(gem, gemcodes[gem]))
  /\ flushed' = flushed \cup {gem}
  /\ closedAt' = Append(closedAt, Len(input))
  /\ lines' = Write(lines, Summary(gem, gemcodes[gem]))
  /\ UNCHANGED <<dist, input, gemcodes, pc, err, fout, mainpc, mainerr>>

(* Line 62: no key left, the generator returns. *)
FlushDone ==
  /\ pc = "flush"
  /\ FlushKeys(gemcodes, flushed) = {}
  /\ pc' = "done"
  /\ UNCHANGED <<dist, input, gemcodes, out, err, flushed, closedAt, mainvars>>

(* Line 88, reached when the loop of line 80 has ended: the name f is bound  *)
(* nowhere (the file is fout), so the call raises NameError.                 *)
CloseOutfile ==
  /\ pc = "done"
  /\ mainpc = "for"
  /\ mainpc' = "exit"
  /\ mainerr' = "NameError"
  /\ UNCHANGED <<genvars, lines, fout>>

Next ==
  \/ \E read \in ReadSet : ReadNoTag(read)
  \/ \E read \in ReadSet : ReadClose(read)
  \/ \E read \in ReadSet : ReadAppend(read)
  \/ EndOfStream
  \/ UpstreamFails
  \/ Cancel
  \/ \E gem \in Barcodes : FlushOne(gem)
  \/ FlushDone
  \/ CloseOutfile

Spec == Init /\ [][Next]_vars

NextXY ==
  \/ \E read \in XYReads : ReadNoTag(read)
  \/ \E read \in XYReads : ReadClose(read)
  \/ \E read \in XYReads : ReadAppend(read)
  \/ EndOfStream
  \/ UpstreamFails
  \/ Cancel
  \/ \E gem \in Barcodes : FlushOne(gem)
  \/ FlushDone
  \/ CloseOutfile

SpecXY == Init /\ [][NextXY]_vars

----------------------------------------------------------------------------
(* Vocabulary of the properties. *)

RECURSIVE SumReadcount(_)
SumReadcount(ms) ==
  IF ms = <<>> THEN 0 ELSE ms[1].readcount + SumReadcount(Tail(ms))

RECURSIVE SumLen(_, _)
SumLen(gc, keys) ==
  IF keys = {} THEN 0
  ELSE LET g == CHOOSE k \in keys : TRUE IN Len(gc[g]) + SumLen(gc, keys \ {g})

(* Every record taken so far carries the RX tag. *)
Tagged == \A i \in 1..Len(input) : input[i].RX # NoTag

(* The runs not yet yielded: every key until the final loop has visited it. *)
OpenKeys == DOMAIN gemcodes \ flushed

(* Number of records processed before the previous molecule of the barcode of *)
(* out[k] was yielded; 0 if out[k] is the first molecule of its barcode.       *)
PrevClose(k) ==
  LET before == { closedAt[j] : j \in { j \in 1..(k - 1) : out[j].barcode = out[k].barcode } }
  IN IF before = {} THEN 0 ELSE Max(before)

(* Indices of the records folded into out[k]: the records of its barcode taken *)
(* after the previous closure of that barcode and processed before out[k] was  *)
(* yielded.                                                                    *)
RunReads(k) ==
  { i \in (PrevClose(k) + 1)..closedAt[k] : input[i].RX = out[k].barcode }

RunPositions(k) == { input[i].reference_start : i \in RunReads(k) }

----------------------------------------------------------------------------
(* C1. Conservation: when every record taken carries a barcode, the readcounts *)
(* yielded so far plus the lengths of the lists not yet yielded equal the      *)
(* number of records taken; once the generator has returned, the readcounts    *)
(* sum to the number of records of the input.                                  *)
C1_Conservation ==
  Tagged =>
    /\ SumReadcount(out) + SumLen(gemcodes, OpenKeys) = Len(input)
    /\ pc = "done" => SumReadcount(out) = Len(input)

(* A finished run over three or more records that yielded several molecules,  *)
(* one of them on a discontinuity.                                            *)
C1_Witness ==
  /\ pc = "done"
  /\ Tagged
  /\ Len(input) >= 3
  /\ Len(out) >= 2
  /\ \E k \in 1..Len(out) : closedAt[k] < Len(input) /\ out[k].readcount >= 2
  /\ SumReadcount(out) = Len(input)

(* C2. Interval correctness: every yielded molecule, on a discontinuity or in  *)
(* the final loop, has start <= end, start the minimum and end the maximum of  *)
(* the positions of the records folded into its run, whatever their order.     *)
C2_Interval ==
  /\ Len(closedAt) = Len(out)
  /\ \A k \in 1..Len(out) :
       LET positions == RunPositions(k)
       IN /\ positions # {}
          /\ out[k].start <= out[k].end
          /\ out[k].start = Min(positions)
          /\ out[k].end = Max(positions)

(* A molecule of three records whose positions arrived neither ascending nor  *)
(* descending: its first record is not the minimum, its last not the maximum.  *)
C2_Witness ==
  \E k \in 1..Len(out) :
    /\ out[k].readcount >= 3
    /\ input[Min(RunReads(k))].reference_start > out[k].start
    /\ input[Max(RunReads(k))].reference_start < out[k].end
    /\ out[k].start = Min(RunPositions(k))
    /\ out[k].end = Max(RunPositions(k))

----------------------------------------------------------------------------
(* A step that takes one record whose barcode has an open run. *)
TakesRead == Len(input') = Len(input) + 1
Incoming == input'[Len(input')]
HasRun == Incoming.RX \in DOMAIN gemcodes
PrevRead == gemcodes[Incoming.RX][Len(gemcodes[Incoming.RX])]
Yields == Len(out') = Len(out) + 1

(* C3, the rule for one step: the run of the barcode is closed and yielded iff *)
(* the reference differs from the run's or the position exceeds the position   *)
(* of the last appended read by more than dist; the entry is then replaced by  *)
(* a run of the incoming read alone; otherwise the read is appended and        *)
(* nothing is yielded.                                                         *)
C3_Rule ==
  (TakesRead /\ HasRun) =>
    LET g == Incoming.RX
        c == [chr |-> Incoming.reference_name, pos |-> Incoming.reference_start]
        breaks == \/ Incoming.reference_name # PrevRead.chr
                  \/ Incoming.reference_start - PrevRead.pos > dist
    IN /\ Yields <=> breaks
       /\ breaks =>
            /\ out' = Append(out, out'[Len(out')])
            /\ out'[Len(out')].barcode = g
            /\ out'[Len(out')].chr = gemcodes[g][1].chr
            /\ out'[Len(out')].readcount = Len(gemcodes[g])
            /\ gemcodes'[g] = <<c>>
       /\ ~breaks =>
            /\ out' = out
            /\ gemcodes'[g] = Append(gemcodes[g], c)

C3_Input ==
  << Read("chr1", 100, "AA"), Read("chr1", 140, "AA"), Read("chr1", 300, "AA") >>

C3_Output ==
  << molecule("chr1", 100, 140, "AA", 2), molecule("chr1", 300, 300, "AA", 1) >>

(* C3. Continuity rule: every step that takes a read of a barcode with an open *)
(* run follows C3_Rule (so a gap of exactly dist does not split), and the      *)
(* reads (chr1,100,AA), (chr1,140,AA), (chr1,300,AA) with dist = 50 yield      *)
(* chr1 100 140 AA 2 and then chr1 300 300 AA 1.                               *)
C3_Continuity ==
  /\ [][C3_Rule]_vars
  /\ []((dist = 50 /\ input = C3_Input /\ pc = "done") => out = C3_Output)

(* The scenario of C3 has run to its end with two reads joined (the gap of 40  *)
(* is below dist) and the third split off.                                     *)
C3_Witness ==
  /\ dist = 50
  /\ input = C3_Input
  /\ pc = "done"
  /\ out = C3_Output

C4_Input == << Read("chr1", 100, "BB"), Read("chr2", 100, "BB") >>

C4_Output ==
  << molecule("chr1", 100, 100, "BB", 1), molecule("chr2", 100, 100, "BB", 1) >>

(* C4. Single reference per molecule: all reads of one open run have the same  *)
(* reference, every yielded molecule's reference is the reference of every     *)
(* record folded into it, and for every dist the reads (chr1,100,BB),          *)
(* (chr2,100,BB) yield chr1 100 100 BB 1 and chr2 100 100 BB 1.                *)
C4_SingleReference ==
  /\ \A g \in DOMAIN gemcodes :
       \A i \in 1..Len(gemcodes[g]) : gemcodes[g][i].chr = gemcodes[g][1].chr
  /\ \A k \in 1..Len(out) :
       \A i \in RunReads(k) : input[i].reference_name = out[k].chr
  /\ (input = C4_Input /\ pc = "done") => out = C4_Output

(* The scenario of C4 has run to its end with a dist that the gap of 0 between *)
(* the two positions does not exceed.                                          *)
C4_Witness ==
  /\ dist = 50
  /\ input = C4_Input
  /\ pc = "done"
  /\ out = C4_Output

(* The molecules the final loop yielded: no record was taken after them. *)
FlushYields(g) ==
  { k \in 1..Len(out) : out[k].barcode = g /\ closedAt[k] = Len(input) }

SeenBarcodes == { input[i].RX : i \in 1..Len(input) }

(* C5. End-of-stream flush: once the generator has returned after the end of   *)
(* the stream, every barcode that occurs in the input has a molecule in the    *)
(* output, the final loop has yielded exactly one molecule for each of them,   *)
(* and that molecule counts only the records taken after the barcode's last    *)
(* closure on a discontinuity.                                                 *)
C5_Flush ==
  pc = "done" =>
    \A g \in SeenBarcodes :
      /\ \E k \in 1..Len(out) : out[k].barcode = g
      /\ Cardinality(FlushYields(g)) = 1
      /\ \A k \in FlushYields(g) :
           /\ out[k].readcount = Cardinality(RunReads(k))
           /\ Len(input) \in RunReads(k) <=> input[Len(input)].RX = g

(* The stream ended right after the only read of a barcode, and another        *)
(* barcode had a run closed on a discontinuity before.                         *)
C5_Witness ==
  /\ pc = "done"
  /\ Len(input) >= 3
  /\ Cardinality({ i \in 1..Len(input) : input[i].RX = input[Len(input)].RX }) = 1
  /\ \E k \in 1..Len(out) :
       /\ closedAt[k] < Len(input)
       /\ FlushYields(out[k].barcode) # {}
  /\ \E k \in 1..Len(out) : out[k].barcode = input[Len(input)].RX

----------------------------------------------------------------------------
(* The subsequence of the reads of one barcode, and the molecules of one      *)
(* barcode in the order yielded.                                              *)
ReadsOf(g) == SelectSeq(input, LAMBDA r : r.RX = g)
MoleculesOf(g) == SelectSeq(out, LAMBDA m : m.barcode = g)

(* Lines 47-59 applied to the reads of a single barcode, in their order: the  *)
(* molecules closed on a discontinuity and the run left open.                 *)
RECURSIVE Alone(_, _)
Alone(reads, d) ==
  IF reads = <<>> THEN [closed |-> <<>>, open |-> <<>>]
  ELSE LET n == Len(reads)
           st == Alone(SubSeq(reads, 1, n - 1), d)
           read == reads[n]
           c == coords(read.reference_name, read.reference_start)
       IN IF st.open # <<>> /\ Discontinuous(st.open, read, d)
          THEN [closed |-> Append(st.closed, Summary(read.RX, st.open)), open |-> <<c>>]
          ELSE [closed |-> st.closed, open |-> Append(st.open, c)]

(* Lines 62-63 for a single barcode. *)
AloneFlushed(reads, d) ==
  LET st == Alone(reads, d)
  IN IF st.open = <<>> THEN st.closed
     ELSE Append(st.closed, Summary(reads[1].RX, st.open))

C6_X == << Read("chr1", 10, "X"), Read("chr1", 20, "X") >>
C6_Y == << Read("chr1", 10, "Y"), Read("chr1", 20, "Y") >>

(* C6. Interleaving independence: the molecules yielded for a barcode and its *)
(* open run are those of the barcode's own subsequence of reads processed     *)
(* alone with the same dist, however the reads of other barcodes are          *)
(* interleaved; and in every interleaving of (chr1,10,X), (chr1,20,X) with    *)
(* (chr1,10,Y), (chr1,20,Y) and dist = 50 the output is exactly               *)
(* chr1 10 20 X 2 and chr1 10 20 Y 2.                                         *)
C6_Interleaving ==
  /\ \A g \in Barcodes :
       LET alone == Alone(ReadsOf(g), dist)
       IN /\ g \in OpenKeys =>
               /\ MoleculesOf(g) = alone.closed
               /\ gemcodes[g] = alone.open
          /\ g \notin DOMAIN gemcodes =>
               /\ ReadsOf(g) = <<>>
               /\ MoleculesOf(g) = <<>>
          /\ g \in flushed => MoleculesOf(g) = AloneFlushed(ReadsOf(g), dist)
          /\ pc = "done" => MoleculesOf(g) = AloneFlushed(ReadsOf(g), dist)
  /\ ( /\ dist = 50
       /\ pc = "done"
       /\ Len(input) = 4
       /\ ReadsOf("X") = C6_X
       /\ ReadsOf("Y") = C6_Y )
     => /\ Len(out) = 2
        /\ { out[k] : k \in 1..Len(out) } =
             { molecule("chr1", 10, 20, "X", 2), molecule("chr1", 10, 20, "Y", 2) }

(* The scenario of C6 has run to its end in the order X, Y, Y, X. *)
C6_Witness ==
  /\ dist = 50
  /\ pc = "done"
  /\ input = << C6_X[1], C6_Y[1], C6_Y[2], C6_X[2] >>
  /\ Len(out) = 2
  /\ \E k \in 1..2 : out[k] = molecule("chr1", 10, 20, "X", 2)
  /\ \E k \in 1..2 : out[k] = molecule("chr1", 10, 20, "Y", 2)

----------------------------------------------------------------------------
SameReference == Incoming.reference_name = PrevRead.chr
Closes ==
  /\ Yields
  /\ gemcodes'[Incoming.RX] =
       << [chr |-> Incoming.reference_name, pos |-> Incoming.reference_start] >>
Joins ==
  /\ out' = out
  /\ gemcodes'[Incoming.RX] =
       Append(gemcodes[Incoming.RX],
              [chr |-> Incoming.reference_name, pos |-> Incoming.reference_start])

(* C7 as stated: with dist = 0 a read on the reference of its barcode's open  *)
(* run starts a new molecule whenever its coordinate is distinct from the     *)
(* previous read's, and stays joined only at the same coordinate.             *)
C7_AnyOrder ==
  [][(dist = 0 /\ TakesRead /\ HasRun /\ SameReference) =>
       /\ Incoming.reference_start # PrevRead.pos => Closes
       /\ Incoming.reference_start = PrevRead.pos => Joins]_vars

(* C7 amended. With dist = 0 a read on the reference of its barcode's open    *)
(* run starts a new molecule iff its coordinate is greater than the previous  *)
(* read's; a read at the same or at a smaller coordinate stays joined.        *)
C7_Forward ==
  [][(dist = 0 /\ TakesRead /\ HasRun /\ SameReference) =>
       /\ Incoming.reference_start > PrevRead.pos => Closes
       /\ Incoming.reference_start = PrevRead.pos => Joins
       /\ Incoming.reference_start < PrevRead.pos => Joins]_vars

(* With dist = 0 one run holds a read followed by a read at a smaller         *)
(* coordinate on the same reference, and another by a read at the same one.   *)
C7_Witness ==
  /\ dist = 0
  /\ \E g \in DOMAIN gemcodes :
       /\ Len(gemcodes[g]) >= 3
       /\ gemcodes[g][2].chr = gemcodes[g][1].chr
       /\ gemcodes[g][2].pos < gemcodes[g][1].pos
       /\ gemcodes[g][3].pos = gemcodes[g][2].pos
  /\ \E k \in 1..Len(out) : out[k].chr = "chr1" /\ closedAt[k] < Len(input)

----------------------------------------------------------------------------
(* C8 as stated: a record without the barcode tag does not stop the stream;   *)
(* after it the generator still takes records or yields its open runs.        *)
C8_StreamGoesOn ==
  (\E i \in 1..Len(input) : input[i].RX = NoTag) =>
    /\ pc \in {"loop", "flush", "done"}
    /\ err = "none"

(* C9 as stated: a record with a negative position is never folded into a    *)
(* run, and no yielded molecule has a negative start.                         *)
C9_NoNegative ==
  /\ \A g \in DOMAIN gemcodes :
       \A i \in 1..Len(gemcodes[g]) : gemcodes[g][i].pos >= 0
  /\ \A k \in 1..Len(out) : out[k].start >= 0

----------------------------------------------------------------------------
Occurrences(g) == { i \in 1..Len(input) : input[i].RX = g }

(* C10. Single-read molecule: once the generator has returned, a barcode that *)
(* occurs in exactly one record has exactly one molecule, whose start and end *)
(* are the position of that record, whose reference is its reference and      *)
(* whose readcount is 1.                                                      *)
C10_SingleRead ==
  pc = "done" =>
    \A g \in Barcodes :
      Cardinality(Occurrences(g)) = 1 =>
        LET r == input[CHOOSE i \in Occurrences(g) : TRUE]
        IN MoleculesOf(g) =
             << molecule(r.reference_name, r.reference_start, r.reference_start, g, 1) >>

(* A barcode's only read stood between reads of another barcode, and the      *)
(* generator has returned.                                                    *)
C10_Witness ==
  /\ pc = "done"
  /\ \E i \in 2..(Len(input) - 1) :
       /\ Occurrences(input[i].RX) = {i}
       /\ input[i - 1].RX = input[i + 1].RX
       /\ Len(MoleculesOf(input[i].RX)) = 1

----------------------------------------------------------------------------
(* Lines 41-59 as a function of the records and dist alone: the dict and the  *)
(* molecules yielded when the records have been processed in order.           *)
RECURSIVE LoopRun(_, _)
LoopRun(reads, d) ==
  IF reads = <<>> THEN [gc |-> <<>>, yielded |-> <<>>]
  ELSE LET n == Len(reads)
           st == LoopRun(SubSeq(reads, 1, n - 1), d)
           read == reads[n]
           gem == read.RX
           c == coords(read.reference_name, read.reference_start)
       IN IF gem \in DOMAIN st.gc /\ Discontinuous(st.gc[gem], read, d)
          THEN [gc |-> Replace(st.gc, gem, c),
                yielded |-> Append(st.yielded, Summary(gem, st.gc[gem]))]
          ELSE [gc |-> AppendTo(st.gc, gem, c), yielded |-> st.yielded]

(* The records processed to the end of the loop body: all but an untagged one. *)
Processed == SelectSeq(input, LAMBDA r : r.RX # NoTag)

Count(seq, x) == Cardinality({ k \in 1..Len(seq) : seq[k] = x })

(* The molecules lines 62-63 yield for a dict, whatever the order of its keys. *)
LastRuns(gc) == { Summary(g, gc[g]) : g \in DOMAIN gc }

(* C11. Determinism: what a run has yielded is fixed by the records taken and *)
(* by dist. Up to the end of the loop it is one sequence; once the generator  *)
(* has returned it is one multiset, the molecules of the loop and one         *)
(* molecule for each key of the dict, in whatever order the final loop        *)
(* visited the keys.                                                          *)
C11_Determinism ==
  LET run == LoopRun(Processed, dist)
      last == LastRuns(run.gc)
  IN /\ flushed = {} => out = run.yielded
     /\ pc = "done" =>
          /\ Len(out) = Len(run.yielded) + Cardinality(DOMAIN run.gc)
          /\ \A m \in { out[k] : k \in 1..Len(out) } \cup last :
               Count(out, m) = Count(run.yielded, m) + (IF m \in last THEN 1 ELSE 0)

(* Two barcodes were left open at the end of the stream and the final loop    *)
(* visited BB before AA, not in the order of their first reads; a molecule    *)
(* had been yielded in the loop.                                              *)
C11_Witness ==
  /\ pc = "done"
  /\ Len(out) = 3
  /\ closedAt[1] < Len(input)
  /\ input[1].RX = "AA"
  /\ out[2].barcode = "BB"
  /\ out[3].barcode = "AA"

----------------------------------------------------------------------------
C12_Input ==
  << Read("chr1", 100, "AA"), Read("chr1", 10, "AA"), Read("chr1", 70, "AA") >>

C12_Output ==
  << molecule("chr1", 10, 100, "AA", 2), molecule("chr1", 70, 70, "AA", 1) >>

(* C12. Forward-only test against the last read: a read on the reference of  *)
(* its barcode's open run closes the run iff its position exceeds the        *)
(* position of the read appended last by more than dist, whatever the run's  *)
(* minimum and maximum are; a read at a lower position than the last one is  *)
(* always joined. The positions 100, 10, 70 with dist = 50 give a molecule   *)
(* 10..100 of two reads (a span of 90 > dist) and split before 70.           *)
C12_LastRead ==
  /\ [][(TakesRead /\ HasRun /\ SameReference) =>
          /\ Incoming.reference_start - PrevRead.pos > dist => Closes
          /\ Incoming.reference_start - PrevRead.pos <= dist => Joins
          /\ Incoming.reference_start < PrevRead.pos => Joins]_vars
  /\ []((dist = 50 /\ input = C12_Input /\ pc = "done") => out = C12_Output)

(* The scenario of C12 has run to its end: the molecule yielded first spans  *)
(* more than dist, and 70 was split off although it is within dist of 100.   *)
C12_Witness ==
  /\ dist = 50
  /\ input = C12_Input
  /\ pc = "done"
  /\ out = C12_Output
  /\ out[1].end - out[1].start > dist
  /\ out[1].end - input[3].reference_start <= dist

----------------------------------------------------------------------------
(* The step adds nothing to the output, or one molecule at its end. *)
ExtendsByOne == Yields /\ SubSeq(out', 1, Len(out)) = out

(* C13, steps: a step that takes a read yields at most one molecule, which is *)
(* of the read's barcode and is yielded in that very step, before any further *)
(* read is taken; a first read of a barcode and a read that continues the run *)
(* yield nothing; no step changes what was yielded before; once the final     *)
(* loop has begun no read is taken any more.                                  *)
C13_Steps ==
  /\ out' = out \/ ExtendsByOne
  /\ TakesRead =>
       /\ Yields =>
            /\ HasRun
            /\ out'[Len(out')].barcode = Incoming.RX
            /\ closedAt'[Len(out')] = Len(input)
       /\ ~HasRun => out' = out
       /\ ( /\ HasRun
            /\ SameReference
            /\ Incoming.reference_start - PrevRead.pos <= dist ) => out' = out
  /\ pc \in {"flush", "done"} => input' = input /\ pc' \in {"flush", "done", "cancelled"}

(* C13, states: the molecules of one barcode stand in the output in the order *)
(* of their runs in the input, and every molecule yielded on a discontinuity  *)
(* stands before every molecule of the final loop.                            *)
C13_Order ==
  /\ \A j, k \in 1..Len(out) :
       (j < k /\ out[j].barcode = out[k].barcode) =>
         \A a \in RunReads(j), b \in RunReads(k) : a < b
  /\ \A j, k \in 1..Len(out) :
       (closedAt[j] < Len(input) /\ closedAt[k] = Len(input) /\ pc \in {"flush", "done"})
         => j < k

(* C13. Emission order: every step satisfies C13_Steps (at most one molecule  *)
(* per read, of the read's barcode, yielded before the next read is taken,    *)
(* nothing on a first or a continuing read) and every state C13_Order (per    *)
(* barcode the molecules follow the order of the runs; molecules of the loop  *)
(* precede the molecules of the final loop).                                  *)
C13_EmissionOrder == [][C13_Steps]_vars /\ []C13_Order

(* A barcode has three molecules in the output, the last from the final loop, *)
(* and another barcode's molecule of the final loop stands before it.         *)
C13_Witness ==
  /\ pc = "done"
  /\ \E g \in Barcodes :
       /\ Len(MoleculesOf(g)) = 3
       /\ out[Len(out)].barcode = g
       /\ Len(out) = 4
       /\ closedAt[3] = Len(input)

----------------------------------------------------------------------------
TaggedBarcodes == SeenBarcodes \ {NoTag}

----------------------------------------------------------------------------
(* The consumer has stopped taking molecules. *)
Stopped == mainpc = "exit" /\ mainerr = "KeyboardInterrupt"

(* For each barcode, the reads taken since its last closure on a             *)
(* discontinuity: its open run, derived from the input.                      *)
OpenAlone == [g \in Barcodes |-> Alone(ReadsOf(g), dist).open]

(* C15. Cancellation: once the consumer has stopped nothing more is yielded   *)
(* or written; if it stopped before the end of the input, the output is       *)
(* exactly the molecules closed on a discontinuity among the records taken so *)
(* far, none comes from the final loop, and the runs open at that moment stay *)
(* unyielded.                                                                 *)
C15_Cancellation ==
  /\ [][Stopped => (out' = out /\ lines' = lines /\ Stopped')]_vars
  /\ []((Stopped /\ flushed = {}) =>
          /\ pc = "cancelled"
          /\ out = LoopRun(Processed, dist).yielded
          /\ \A k \in 1..Len(out) : closedAt[k] < Len(input)
          /\ SumReadcount(out) + SumLen(OpenAlone, Barcodes) = Len(input)
          /\ input # <<>> => SumReadcount(out) < Len(input))

(* The consumer stopped right after a molecule yielded on a discontinuity,    *)
(* while two barcodes had open runs.                                          *)
C15_Witness ==
  /\ Stopped
  /\ flushed = {}
  /\ pc = "cancelled"
  /\ Len(out) >= 1
  /\ closedAt[Len(out)] = Len(input) - 1
  /\ Cardinality(DOMAIN gemcodes) = 2

----------------------------------------------------------------------------
(* The input stream has raised while producing a record. *)
Failed == err = "IOError"

(* C16. Upstream failure: the failure reaches the caller (it ends the         *)
(* generator and main), the step that fails and every step after it leave the *)
(* output as it was, the final loop never runs, and the output is what the    *)
(* loop had yielded for the records taken before the failure.                 *)
C16_UpstreamFailure ==
  /\ [][(Failed \/ Failed') => (out' = out /\ lines' = lines /\ flushed' = flushed)]_vars
  /\ [][Failed => (Failed' /\ pc' = pc)]_vars
  /\ [](Failed =>
          /\ pc = "raised"
          /\ mainpc = "exit"
          /\ mainerr = "IOError"
          /\ flushed = {}
          /\ out = LoopRun(Processed, dist).yielded
          /\ \A k \in 1..Len(out) : closedAt[k] < Len(input))

(* The stream failed after a molecule had been yielded and while two          *)
(* barcodes had open runs, which are not yielded.                             *)
C16_Witness ==
  /\ Failed
  /\ pc = "raised"
  /\ Len(out) >= 1
  /\ Cardinality(DOMAIN gemcodes) = 2
  /\ SumReadcount(out) < Len(input)

----------------------------------------------------------------------------
(* One line per molecule yielded, in the order yielded, each the five fields  *)
(* joined by tabs and ended by a newline.                                     *)
LinesWritten ==
  /\ Len(lines) = Len(out)
  /\ \A k \in 1..Len(out) :
       lines[k] = out[k].chr \o "\t" \o ToString(out[k].start) \o "\t"
                    \o ToString(out[k].end) \o "\t" \o out[k].barcode \o "\t"
                    \o ToString(out[k].readcount) \o "\n"
  /\ (dist = 50 /\ input = C3_Input /\ pc = "done") =>
       lines = << "chr1\t100\t140\tAA\t2\n", "chr1\t300\t300\tAA\t1\n" >>

(* C17 as stated: main writes one line per molecule, in order, and when the   *)
(* generator has returned and main has left line 88 the output file is closed *)
(* and main has raised no error.                                              *)
C17_Completes ==
  /\ LinesWritten
  /\ (pc = "done" /\ mainpc = "exit") => (fout = "closed" /\ mainerr = "none")

----------------------------------------------------------------------------
(* C18. No empty run: every key of the mapping holds a non-empty list, so the *)
(* last read and the minimum and maximum of its positions exist, and every    *)
(* molecule yielded has a readcount of at least 1.                            *)
C18_NoEmptyRun ==
  /\ \A g \in DOMAIN gemcodes :
       /\ Len(gemcodes[g]) >= 1
       /\ PosOf(gemcodes[g]) # {}
       /\ Last(gemcodes[g]) \in { gemcodes[g][i] : i \in 1..Len(gemcodes[g]) }
  /\ \A k \in 1..Len(out) : out[k].readcount >= 1

(* One barcode has just been inserted with its first read and another holds   *)
(* the one-read run that replaced a closed run.                               *)
C18_Witness ==
  /\ pc = "loop"
  /\ Len(input) >= 3
  /\ Len(out) >= 1
  /\ closedAt[Len(out)] = Len(input) - 2
  /\ Cardinality(Occurrences(input[Len(input)].RX)) = 1
  /\ \A g \in DOMAIN gemcodes : Len(gemcodes[g]) = 1
  /\ Cardinality(DOMAIN gemcodes) = 2

====
